---- MODULE Spec2Model ----
(***************************************************************************)
(* Model of friday-router: the task-tier classifier, the model resolver,   *)
(* the troubleshooting-loop detector and the agent dispatcher of           *)
(* scripts/router.py, and the gateway watchdog loop of                     *)
(* scripts/gateway_watchdog.py.                                            *)
(*                                                                         *)
(* Text is modelled as TLA+ strings; substring search, lower-casing and    *)
(* the multi-step regular expressions are computed character by character. *)
(***************************************************************************)
EXTENDS Integers, Sequences, FiniteSets, TLC

VARIABLES
    task,          \* classify_task: the task description under classification
    cls,           \* classify_task: its return value (return_details=True)
    probes,        \* classify_task: what the call read off the task text
    config,        \* FridayRouter.config: models and routing_rules
    rec,           \* recommend_model: its return value
    gateway_log,   \* the file OPENCLAW_HOME/logs/gateway.log
    detect,        \* _detect_troubleshooting_loop: its return value
    recent_tasks,  \* FridayRouter.recent_tasks
    facepalm,      \* spawn_agent: what the FACEPALM run of this call did
    ret,           \* spawn_agent: its return value, or the exception raised
    before,        \* recent_tasks when the last spawn_agent call started
    dispatched,    \* every task normally dispatched so far, in order
    raised,        \* the exceptions spawn_agent calls have raised so far
    pc,            \* gateway_watchdog.main: where the process is
    _shutdown,     \* gateway_watchdog._shutdown
    result,        \* main: result = check_status() of the current tick
    slices,        \* main: sleep slices completed in the current for loop
    status_cmd,    \* what the status command of the current tick did
    recovery,      \* the recovery steps run in the current tick, in order
    pace,          \* sleep slices counted from one run_recovery() call to the next
    after,         \* what the loop has done since _sigterm set the flag
    launched       \* the gateway process of the last Popen of run_recovery

classifyVars == <<cls, probes>>
resolveVars == <<rec>>
detectVars == <<gateway_log, detect>>
spawnVars == <<facepalm, ret, before, dispatched, raised>>
routerVars == <<task, cls, probes, config, rec, gateway_log, detect, recent_tasks,
                facepalm, ret, before, dispatched, raised>>
watchdogVars == <<pc, _shutdown, result, slices, status_cmd, recovery, pace, after,
                  launched>>
vars == <<routerVars, watchdogVars>>

None == "None"

-----------------------------------------------------------------------------
(* Text primitives                                                         *)

\* s[i], the i-th character of s (1-based), "" outside the string
CharAt(s, i) == IF i >= 1 /\ i <= Len(s) THEN SubSeq(s, i, i) ELSE ""

UpperLetters == "ABCDEFGHIJKLMNOPQRSTUVWXYZ"
LowerLetters == "abcdefghijklmnopqrstuvwxyz"
Digits == "0123456789"

\* index of character c in the string alphabet, 0 when absent
IndexIn(alphabet, c) ==
    IF \E i \in 1..Len(alphabet) : CharAt(alphabet, i) = c
    THEN CHOOSE i \in 1..Len(alphabet) : CharAt(alphabet, i) = c
    ELSE 0

\* the lower-case letter of every upper-case letter
LowerMap ==
    [c \in {CharAt(UpperLetters, i) : i \in 1..Len(UpperLetters)} |->
        CharAt(LowerLetters, IndexIn(UpperLetters, c))]

\* str.lower() on one character
LowerChar(c) == IF c \in DOMAIN LowerMap THEN LowerMap[c] ELSE c

\* str.lower()
RECURSIVE Lower(_)
Lower(s) ==
    IF Len(s) = 0 THEN s
    ELSE IF Len(s) = 1 THEN LowerChar(s)
    ELSE Lower(SubSeq(s, 1, Len(s) \div 2)) \o Lower(SubSeq(s, Len(s) \div 2 + 1, Len(s)))

\* Python's `kw in text` on strings
Contains(text, kw) ==
    \E i \in 1..(Len(text) - Len(kw) + 1) : SubSeq(text, i, i + Len(kw) - 1) = kw

\* text[i:i+len(w)] == w
MatchAt(text, i, w) ==
    /\ i >= 1
    /\ i + Len(w) - 1 <= Len(text)
    /\ SubSeq(text, i, i + Len(w) - 1) = w

IsSpace(c) == c \in {" ", "\t", "\n", "\r", "\f"}
IsDigit(c) == c # "" /\ IndexIn(Digits, c) > 0
\* regex \w
IsWordChar(c) ==
    c # "" /\ (IndexIn(LowerLetters, c) > 0 \/ IndexIn(UpperLetters, c) > 0
                 \/ IsDigit(c) \/ c = "_")
\* regex \b between text[i-1] and text[i]
Boundary(text, i) == IsWordChar(CharAt(text, i - 1)) # IsWordChar(CharAt(text, i))

\* regex \bw\b matching at position i
WordAt(text, i, w) ==
    MatchAt(text, i, w) /\ Boundary(text, i) /\ Boundary(text, i + Len(w))

\* re.search(r'\bw\b', text)
HasWord(text, w) == \E i \in 1..Len(text) : WordAt(text, i, w)

-----------------------------------------------------------------------------
(* FridayRouter keyword tables                                             *)

SIMPLE_KEYWORDS ==
    <<"check", "get", "fetch", "list", "show", "display", "status",
      "what is", "how much", "tell me", "find", "search", "summarize",
      "monitor", "watch", "read", "look", "simple", "quick", "fast">>

COMPLEX_KEYWORDS ==
    <<"build", "create", "implement", "architect", "design", "system",
      "comprehensive", "thorough", "complex", "multi", "full-stack",
      "authentication", "authorization", "database", "api", "service">>

CODE_KEYWORDS ==
    <<"code", "function", "class", "method", "debug", "fix", "bug",
      "refactor", "lint", "test", "unit", "integration", "component",
      "module", "package", "library", "framework", "import", "export",
      "react", "vue", "angular", "node", "python", "javascript",
      "typescript", "rust", "go", "java", "api", "endpoint">>

REASONING_KEYWORDS ==
    <<"prove", "theorem", "proof", "derive", "logic", "reason",
      "analyze", "reasoning", "step by step", "why", "how does",
      "explain", "mathematical", "induction", "deduction">>

CREATIVE_KEYWORDS ==
    <<"creative", "write", "story", "poem", "article", "blog",
      "design", "UI", "UX", "frontend", "website", "landing",
      "copy", "narrative", "brainstorm", "idea", "concept">>

RESEARCH_KEYWORDS ==
    <<"research", "find", "search", "lookup", "web", "information",
      "fact", "review", "compare", "vs", "versus", "difference",
      "summary of", "what are", "best", "top", "alternatives">>

AGENTIC_KEYWORDS ==
    <<"run", "test", "fix", "deploy", "edit", "build", "create",
      "implement", "execute", "refactor", "migrate", "integrate",
      "setup", "configure", "install", "compile", "debug">>

vision_keywords ==
    <<"image", "picture", "photo", "screenshot", "visual", "see", "describe what">>

website_project_keywords ==
    <<"website", "web site", "landing page", "landing", "frontend",
      "community site", "online community", "build a site", "new site">>

\* insertion order of the tier_scores dict
TierOrder == <<"FAST", "REASONING", "CREATIVE", "RESEARCH", "CODE", "COMPLEX", "VISION">>
ScoreTiers == {TierOrder[i] : i \in DOMAIN TierOrder}

Elems(seq) == {seq[i] : i \in DOMAIN seq}

\* kw.lower() of every keyword of the tables, tabulated once
KwLower ==
    [kw \in Elems(SIMPLE_KEYWORDS) \cup Elems(COMPLEX_KEYWORDS) \cup Elems(CODE_KEYWORDS)
            \cup Elems(REASONING_KEYWORDS) \cup Elems(CREATIVE_KEYWORDS)
            \cup Elems(RESEARCH_KEYWORDS) \cup Elems(AGENTIC_KEYWORDS)
            \cup Elems(vision_keywords) \cup Elems(website_project_keywords)
        |-> Lower(kw)]

\* FridayRouter._keyword_match: number of keywords (lower-cased) that occur
\* in the lower-cased text; each keyword counts once
_keyword_match(text, keywords) ==
    LET text_lower == Lower(text)
    IN  Cardinality({i \in DOMAIN keywords : Contains(text_lower, KwLower[keywords[i]])})

-----------------------------------------------------------------------------
(* multi_step_patterns of classify_task, each as re.search on the text     *)

AllSpace(text, a, b) == \A p \in a..b : IsSpace(CharAt(text, p))

\* r'\bfirst\b.*\bthen\b'   ('.' does not match a newline)
PatFirstThen(text) ==
    \E i \in 1..Len(text) :
        /\ WordAt(text, i, "first")
        /\ \E j \in (i + 5)..Len(text) :
              /\ WordAt(text, j, "then")
              /\ \A p \in (i + 5)..(j - 1) : CharAt(text, p) # "\n"

\* r'\bstep\s+\d+'
PatStepN(text) ==
    \E i \in 1..Len(text) :
        /\ MatchAt(text, i, "step")
        /\ Boundary(text, i)
        /\ \E k \in 1..Len(text) :
              AllSpace(text, i + 4, i + 3 + k) /\ IsDigit(CharAt(text, i + 4 + k))

\* r'\d+\.\s+\w+'
PatNumbered(text) ==
    \E i \in 1..Len(text) :
        /\ IsDigit(CharAt(text, i))
        /\ CharAt(text, i + 1) = "."
        /\ \E k \in 1..Len(text) :
              AllSpace(text, i + 2, i + 1 + k) /\ IsWordChar(CharAt(text, i + 2 + k))

\* r',\s*then\b'
PatCommaThen(text) ==
    \E i \in 1..Len(text) :
        /\ CharAt(text, i) = ","
        /\ \E k \in 0..Len(text) :
              /\ AllSpace(text, i + 1, i + k)
              /\ MatchAt(text, i + 1 + k, "then")
              /\ Boundary(text, i + 1 + k + 4)

\* any(re.search(p, text) for p in multi_step_patterns)
is_multi_step(text) ==
    \/ PatFirstThen(text)
    \/ PatStepN(text)
    \/ PatNumbered(text)
    \/ HasWord(text, "next")
    \/ HasWord(text, "after")
    \/ HasWord(text, "finally")
    \/ PatCommaThen(text)

-----------------------------------------------------------------------------
(* FridayRouter.classify_task                                              *)

\* mutant of Frac: the quotient is taken by integer division
Frac_Floor(n, d) == IF n >= d THEN [num |-> 1, den |-> 1] ELSE [num |-> 0, den |-> 1]

\* a confidence value num/den (min(x, 1.0) applied)
Frac(n, d) == IF n >= d THEN [num |-> 1, den |-> 1] ELSE [num |-> n, den |-> d]

MaxOf(S) == CHOOSE x \in S : \A y \in S : y <= x

\* max(tier_scores.values())
MaxScore(scores) == MaxOf({scores[t] : t \in DOMAIN scores})

\* mutant of ArgMaxFirst: of the keys that carry the maximum the last one
\* is taken
ArgMaxLast(scores) ==
    LET m == MaxScore(scores)
        i == CHOOSE i \in DOMAIN TierOrder :
                /\ scores[TierOrder[i]] = m
                /\ \A j \in (i + 1)..Len(TierOrder) : scores[TierOrder[j]] # m
    IN  TierOrder[i]

\* max(tier_scores, key=tier_scores.get): the first key, in insertion
\* order, that carries the maximum
ArgMaxFirst(scores) ==
    LET m == MaxScore(scores)
        i == CHOOSE i \in DOMAIN TierOrder :
                /\ scores[TierOrder[i]] = m
                /\ \A j \in 1..(i - 1) : scores[TierOrder[j]] # m
    IN  TierOrder[i]

\* the per-category keyword counts (tier_scores before any adjustment)
RawScores(t) ==
    [k \in ScoreTiers |->
        CASE k = "FAST"      -> _keyword_match(t, SIMPLE_KEYWORDS)
          [] k = "REASONING" -> _keyword_match(t, REASONING_KEYWORDS)
          [] k = "CREATIVE"  -> _keyword_match(t, CREATIVE_KEYWORDS)
          [] k = "RESEARCH"  -> _keyword_match(t, RESEARCH_KEYWORDS)
          [] k = "CODE"      -> _keyword_match(t, CODE_KEYWORDS)
          [] k = "COMPLEX"   -> _keyword_match(t, COMPLEX_KEYWORDS)
          [] k = "VISION"    -> _keyword_match(t, vision_keywords)]

\* everything classify_task reads off the task text: the keyword counts of
\* the scoring categories, the agentic count, the multi-step test and the
\* website-project keyword count
Probes(t) ==
    [scores        |-> RawScores(t),
     agentic_count |-> _keyword_match(t, AGENTIC_KEYWORDS),
     multi_step    |-> is_multi_step(Lower(t)),
     website       |-> _keyword_match(t, website_project_keywords)]

\* agentic_count >= 2 or is_multi_step
IsAgentic(p) == p.agentic_count >= 2 \/ p.multi_step

\* mutant of AdjustedScores: CODE is raised but a positive FAST score is kept
AdjustedScores_KeepFast(p) ==
    IF IsAgentic(p)
    THEN [p.scores EXCEPT !["CODE"] = @ + 2]
    ELSE p.scores

\* tier_scores after the agentic adjustment
AdjustedScores(p) ==
    IF IsAgentic(p)
    THEN [p.scores EXCEPT !["CODE"] = @ + 2,
                          !["FAST"] = IF @ > 0 THEN 0 ELSE @]
    ELSE p.scores

\* mutant of SelectTier: the no-match default is CODE instead of FAST
SelectTier_DefaultCode(scores) ==
    IF MaxScore(scores) = 0 THEN "CODE" ELSE ArgMaxFirst(scores)

\* best_tier after max-score selection
SelectTier(scores) ==
    IF MaxScore(scores) = 0 THEN "FAST" ELSE ArgMaxFirst(scores)

\* best_tier after the website override
WebsiteOverride(p, best) ==
    IF p.website > 0 THEN "CREATIVE" ELSE best

\* mutant of ResolveComplex: COMPLEX goes to CODE only, and stays when CODE
\* scored nothing
ResolveComplex_CodeOnly(scores, best) ==
    IF best = "COMPLEX" /\ scores["CODE"] > 0 THEN "CODE" ELSE best

\* best_tier after mapping COMPLEX to CODE or QUALITY
ResolveComplex(scores, best) ==
    IF best = "COMPLEX"
    THEN (IF scores["CODE"] > 0 THEN "CODE" ELSE "QUALITY")
    ELSE best

\* mutant of ComplexVsFast: the rule needs COMPLEX strictly above FAST
ComplexVsFast_Strict(scores, best) ==
    IF scores["COMPLEX"] > 0 /\ scores["FAST"] > 0 /\ scores["COMPLEX"] > scores["FAST"]
    THEN (IF scores["COMPLEX"] >= 2 THEN "QUALITY" ELSE "CODE")
    ELSE best

\* best_tier after the COMPLEX-and-FAST rule
ComplexVsFast(scores, best) ==
    IF scores["COMPLEX"] > 0 /\ scores["FAST"] > 0 /\ scores["COMPLEX"] >= scores["FAST"]
    THEN (IF scores["COMPLEX"] >= 2 THEN "QUALITY" ELSE "CODE")
    ELSE best

\* mutant of Decide: the website override is applied before the vision test
Decide_WebsiteBeforeVision(p) ==
    LET scores == AdjustedScores(p)
        best == ComplexVsFast(scores,
                    ResolveComplex(scores,
                        WebsiteOverride(p, SelectTier(scores))))
    IN  IF p.scores["VISION"] > 0 /\ p.website = 0
        THEN [tier |-> "VISION",
              confidence |-> Frac(p.scores["VISION"], 3),
              tier_scores |-> [k \in {"VISION"} |-> p.scores["VISION"]],
              is_agentic |-> FALSE]
        ELSE [tier |-> best,
              confidence |-> Frac(MaxScore(scores), 5),
              tier_scores |-> [k \in {x \in ScoreTiers : scores[x] > 0} |-> scores[k]],
              is_agentic |-> IsAgentic(p)]

\* the decision of classify_task from what it read off the text
Decide(p) ==
    LET vision_matches == p.scores["VISION"]
        scores == AdjustedScores(p)
        best == ComplexVsFast(scores,
                    ResolveComplex(scores,
                        WebsiteOverride(p, SelectTier(scores))))
    IN  IF vision_matches > 0
        THEN [tier |-> "VISION",
              confidence |-> Frac(vision_matches, 3),
              tier_scores |-> [k \in {"VISION"} |-> vision_matches],
              is_agentic |-> FALSE]
        ELSE [tier |-> best,
              confidence |-> Frac(MaxScore(scores), 5),
              tier_scores |-> [k \in {x \in ScoreTiers : scores[x] > 0} |-> scores[k]],
              is_agentic |-> IsAgentic(p)]

\* classify_task(task_description, return_details=True)
classify_task(t) == Decide(Probes(t))

\* no classification returned yet
NoClassification ==
    [tier |-> None, confidence |-> Frac(0, 1), tier_scores |-> <<>>, is_agentic |-> FALSE]

NoProbes ==
    [scores |-> [k \in ScoreTiers |-> 0], agentic_count |-> 0,
     multi_step |-> FALSE, website |-> 0]

ClassifierIdle == cls = NoClassification /\ probes = NoProbes

-----------------------------------------------------------------------------
(* FridayRouter.recommend_model                                            *)

\* "no model": the None of `model = None` / `fallback = None`
NoModel == [id |-> None, alias |-> None]

\* for m in models: if m['id'] == wanted: ...; break
\* (the first descriptor of the list with that id, NoModel without one)
FindModel(models, wanted) ==
    IF \E i \in DOMAIN models : models[i].id = wanted
    THEN models[CHOOSE i \in DOMAIN models :
                    /\ models[i].id = wanted
                    /\ \A j \in 1..(i - 1) : models[j].id # wanted]
    ELSE NoModel

\* for fb_id in fallback_ids: for m in models: if m['id'] == fb_id:
\*     fallback = m; break        (the break leaves the inner loop only)
RECURSIVE FallbackLoop(_, _, _)
FallbackLoop(models, fallback_ids, fallback) ==
    IF fallback_ids = <<>> THEN fallback
    ELSE LET m == FindModel(models, Head(fallback_ids))
         IN  FallbackLoop(models, Tail(fallback_ids),
                          IF m # NoModel THEN m ELSE fallback)

\* routing_rules.get(tier, {}) with .get('primary') and .get('fallback', [])
TierRules(cfg, tier) ==
    IF tier \in DOMAIN cfg.routing_rules
    THEN cfg.routing_rules[tier]
    ELSE [primary |-> None, fallback |-> <<>>]

\* recommend_model given the classification of the task
Recommend(cfg, classification) ==
    LET tier == classification.tier
        tier_rules == TierRules(cfg, tier)
    IN  [tier           |-> tier,
         model          |-> FindModel(cfg.models, tier_rules.primary),
         fallback       |-> FallbackLoop(cfg.models, tier_rules.fallback, NoModel),
         classification |-> classification]

\* FridayRouter.recommend_model(task_description)
recommend_model(cfg, t) == Recommend(cfg, classify_task(t))

NoRecommendation ==
    [tier |-> None, model |-> NoModel, fallback |-> NoModel,
     classification |-> NoClassification]

NoConfig == [models |-> <<>>, routing_rules |-> <<>>]
ResolverIdle == config = NoConfig /\ rec = NoRecommendation

-----------------------------------------------------------------------------
(* FridayRouter._detect_troubleshooting_loop                               *)

\* str.strip(): leading and trailing whitespace removed
RECURSIVE StripLeft(_)
StripLeft(s) ==
    IF Len(s) > 0 /\ IsSpace(CharAt(s, 1)) THEN StripLeft(SubSeq(s, 2, Len(s))) ELSE s
RECURSIVE StripRight(_)
StripRight(s) ==
    IF Len(s) > 0 /\ IsSpace(CharAt(s, Len(s))) THEN StripRight(SubSeq(s, 1, Len(s) - 1)) ELSE s
Strip(s) == StripRight(StripLeft(s))

\* s[:n]
Prefix(s, n) == IF Len(s) <= n THEN s ELSE SubSeq(s, 1, n)

\* seq[-n:]
LastN(seq, n) == IF Len(seq) <= n THEN seq ELSE SubSeq(seq, Len(seq) - n + 1, Len(seq))

\* s.count(' ')
CountSpaces(s) == Cardinality({i \in 1..Len(s) : CharAt(s, i) = " "})

TailWindow == 200      \* lines[-200:]
PatternLen == 100      \* line.strip()[:100]
ReasonLen == 50        \* pattern[:50]
LoopThreshold == 3     \* count >= 3
SimilarSpaces == 2     \* abs(...) <= 2
SimilarThreshold == 2  \* len(similar_tasks) >= 2
MaxRecent == 10        \* self.recent_tasks[-10:]

error_keywords ==
    <<"error", "failed", "exception", "traceback", "unhandled",
      "device_token_mismatch", "unauthorized", "timeout",
      "connection refused", "socket error">>

troubleshooting_keywords ==
    <<"fix", "debug", "error", "issue", "problem", "troubleshoot">>

\* the error keywords found in line.lower(): the inner loop adds 1 to the
\* line's pattern for each of them
ErrorHits(line) ==
    LET line_lower == Lower(line)
    IN  {k \in DOMAIN error_keywords : Contains(line_lower, error_keywords[k])}

\* pattern = line.strip()[:100]
Pattern(line) == Prefix(Strip(line), PatternLen)

\* error_patterns[pattern] after the scan: one increment for every pair of
\* a line with that pattern and an error keyword the line contains
Tally(info, pattern) ==
    Cardinality({ik \in (DOMAIN info) \X (DOMAIN error_keywords) :
                    info[ik[1]].pattern = pattern /\ ik[2] \in info[ik[1]].hits})

NoReason == [kind |-> None, pattern |-> "", count |-> 0]
NoLoop == [is_loop |-> FALSE, reason |-> NoReason]

\* the gateway.log part of _detect_troubleshooting_loop: the tally over the
\* last 200 lines and the first pattern (in order of first appearance)
\* whose count is 3 or more; a missing or unreadable file gives no loop
LogCheck(log) ==
    IF ~log.exists \/ ~log.readable THEN NoLoop
    ELSE LET recent_lines == LastN(log.lines, TailWindow)
             info == [i \in DOMAIN recent_lines |->
                        [pattern |-> Pattern(recent_lines[i]),
                         hits |-> ErrorHits(recent_lines[i])]]
             hot == {i \in DOMAIN info :
                        info[i].hits # {} /\ Tally(info, info[i].pattern) >= LoopThreshold}
         IN  IF hot = {} THEN NoLoop
             ELSE LET first == CHOOSE i \in hot : \A j \in hot : i <= j
                  IN  [is_loop |-> TRUE,
                       reason |-> [kind |-> "Repeated error detected",
                                   pattern |-> Prefix(info[first].pattern, ReasonLen),
                                   count |-> Tally(info, info[first].pattern)]]

\* task.lower().strip()
Normalize(t) == Strip(Lower(t))

Abs(x) == IF x < 0 THEN 0 - x ELSE x

\* mutant of HistoryCheck: an entry is similar only when the space counts
\* differ by less than 2
HistoryCheck_StrictlyCloser(task_normalized, recent) ==
    IF \E k \in DOMAIN troubleshooting_keywords :
            Contains(task_normalized, troubleshooting_keywords[k])
    THEN LET similar_tasks ==
                {i \in DOMAIN recent :
                    Abs(CountSpaces(task_normalized) - CountSpaces(recent[i])) < SimilarSpaces}
         IN  IF Cardinality(similar_tasks) >= SimilarThreshold
             THEN [is_loop |-> TRUE,
                   reason |-> [kind |-> "Similar troubleshooting task attempted",
                               pattern |-> "",
                               count |-> Cardinality(similar_tasks)]]
             ELSE NoLoop
    ELSE NoLoop

\* the recent_tasks part of _detect_troubleshooting_loop
HistoryCheck(task_normalized, recent) ==
    IF \E k \in DOMAIN troubleshooting_keywords :
            Contains(task_normalized, troubleshooting_keywords[k])
    THEN LET similar_tasks ==
                {i \in DOMAIN recent :
                    Abs(CountSpaces(task_normalized) - CountSpaces(recent[i])) <= SimilarSpaces}
         IN  IF Cardinality(similar_tasks) >= SimilarThreshold
             THEN [is_loop |-> TRUE,
                   reason |-> [kind |-> "Similar troubleshooting task attempted",
                               pattern |-> "",
                               count |-> Cardinality(similar_tasks)]]
             ELSE NoLoop
    ELSE NoLoop

\* _detect_troubleshooting_loop(task), given the result of the log part
\* and task.lower().strip()
DetectWith(log_result, task_normalized, recent) ==
    IF log_result.is_loop THEN log_result ELSE HistoryCheck(task_normalized, recent)

\* FridayRouter._detect_troubleshooting_loop(task)
_detect_troubleshooting_loop(t, log, recent) ==
    DetectWith(LogCheck(log), Normalize(t), recent)

\* gateway.log does not exist
MissingLog == [exists |-> FALSE, readable |-> FALSE, lines |-> <<>>]
\* no _detect_troubleshooting_loop call has returned yet
NotDetected == [is_loop |-> FALSE, reason |-> [kind |-> "pending", pattern |-> "", count |-> 0]]
DetectorIdle == gateway_log = MissingLog /\ detect = NotDetected /\ recent_tasks = <<>>

-----------------------------------------------------------------------------
(* FridayRouter._invoke_facepalm and FridayRouter.spawn_agent              *)

\* A value json.loads can return, as far as spawn_agent looks at it: its
\* type, its size (members, elements, characters; the number itself; 1 for
\* true), the text under the key 'diagnosis' of an object (None without
\* that key) and whether it is the wrapper built around non-JSON output.
PyNone == [type |-> "null", size |-> 0, diagnosis |-> None, raw_output |-> FALSE]

\* Python truthiness of such a value (`if diagnosis:`)
Truthy(v) == v.type # "null" /\ v.size > 0

\* what the diagnosis command can print on stdout: a JSON document (given
\* by the value it parses to) or text that json.loads rejects
Stdouts ==
    {[json |-> TRUE,  text |-> "", value |-> [type |-> "object", size |-> 1, diagnosis |-> "restart the gateway", raw_output |-> FALSE]],
     [json |-> TRUE,  text |-> "", value |-> [type |-> "object", size |-> 0, diagnosis |-> None, raw_output |-> FALSE]],
     [json |-> TRUE,  text |-> "", value |-> [type |-> "array", size |-> 1, diagnosis |-> None, raw_output |-> FALSE]],
     [json |-> FALSE, text |-> "gateway looks fine", value |-> PyNone]}

NoStdout == [json |-> FALSE, text |-> "", value |-> PyNone]

\* what one FACEPALM invocation meets: the script missing, the run timing
\* out or raising, or the run ending with a return code and its stdout
FacepalmOutcomes ==
    {[script |-> FALSE, run |-> None, returncode |-> 0, stdout |-> NoStdout],
     [script |-> TRUE, run |-> "TimeoutExpired", returncode |-> 0, stdout |-> NoStdout],
     [script |-> TRUE, run |-> "Exception", returncode |-> 0, stdout |-> NoStdout],
     [script |-> TRUE, run |-> "exit", returncode |-> 1, stdout |-> NoStdout]}
    \cup {[script |-> TRUE, run |-> "exit", returncode |-> 0, stdout |-> out] : out \in Stdouts}

\* FACEPALM was not invoked in this call
NotInvoked == [script |-> FALSE, run |-> "not invoked", returncode |-> 0, stdout |-> NoStdout]

\* mutant of _invoke_facepalm: the return code of the run is not tested
_invoke_facepalm_IgnoresExit(fp) ==
    IF ~fp.script THEN [diagnosis |-> PyNone, error |-> "FACEPALM script not found"]
    ELSE IF fp.run = "TimeoutExpired" THEN [diagnosis |-> PyNone, error |-> "FACEPALM timeout"]
    ELSE IF fp.run # "exit" THEN [diagnosis |-> PyNone, error |-> "FACEPALM exception"]
    ELSE IF fp.stdout.json
         THEN [diagnosis |-> fp.stdout.value, error |-> None]
         ELSE [diagnosis |-> [type |-> "object", size |-> 2,
                              diagnosis |-> fp.stdout.text, raw_output |-> TRUE],
               error |-> None]

\* FridayRouter._invoke_facepalm(): the pair (diagnosis, error)
_invoke_facepalm(fp) ==
    IF ~fp.script THEN [diagnosis |-> PyNone, error |-> "FACEPALM script not found"]
    ELSE IF fp.run = "TimeoutExpired" THEN [diagnosis |-> PyNone, error |-> "FACEPALM timeout"]
    ELSE IF fp.run # "exit" THEN [diagnosis |-> PyNone, error |-> "FACEPALM exception"]
    ELSE IF fp.returncode = 0
         THEN IF fp.stdout.json
              THEN [diagnosis |-> fp.stdout.value, error |-> None]
              ELSE [diagnosis |-> [type |-> "object", size |-> 2,
                                   diagnosis |-> fp.stdout.text, raw_output |-> TRUE],
                    error |-> None]
         ELSE [diagnosis |-> PyNone, error |-> "FACEPALM error"]

DiagnosisModel == "openrouter/openai/gpt-5.3-codex"

NoReturn ==
    [kind |-> None, tier |-> None, model |-> None, facepalm_invoked |-> FALSE,
     task |-> [reason |-> NoReason, text |-> ""]]

\* an exception leaves spawn_agent
Raise(error) ==
    [kind |-> error, tier |-> None, model |-> None, facepalm_invoked |-> FALSE,
     task |-> [reason |-> NoReason, text |-> ""]]

\* the dict returned on the diagnosis path; diagnosis.get(...) raises
\* AttributeError on a value that is no object
DiagnosisReturn(loop_reason, diagnosis) ==
    IF diagnosis.type # "object" THEN Raise("AttributeError")
    ELSE [kind |-> "diagnosis", tier |-> "CODE", model |-> DiagnosisModel,
          facepalm_invoked |-> TRUE,
          task |-> [reason |-> loop_reason,
                    text |-> IF diagnosis.diagnosis # None
                             THEN diagnosis.diagnosis ELSE "str(diagnosis)"]]

\* the dict returned by normal routing, or ValueError without a model
RoutingReturn(t, recommendation) ==
    IF recommendation.model = NoModel THEN Raise("ValueError")
    ELSE [kind |-> "routed", tier |-> recommendation.tier,
          model |-> recommendation.model.id, facepalm_invoked |-> FALSE,
          task |-> [reason |-> NoReason, text |-> t]]

\* mutant of Track: the slice keeps the first 10 entries instead of the last
Track_KeepOldest(recent, task_normalized) ==
    IF Len(recent) < MaxRecent THEN Append(recent, task_normalized) ELSE recent

\* recent_tasks.append(task.lower().strip()); recent_tasks = recent_tasks[-10:]
Track(recent, task_normalized) == LastN(Append(recent, task_normalized), MaxRecent)

NoFacepalm == NotInvoked
DispatcherIdle ==
    /\ facepalm = NoFacepalm /\ ret = NoReturn /\ before = <<>> /\ dispatched = <<>>
    /\ raised = {}

-----------------------------------------------------------------------------
(* gateway_watchdog: check_status, run_recovery and the loop of main       *)

INTERVAL_SEC == 10

\* A value json.loads can return for the status output, as far as main
\* looks at it: its type, the truth value of result.get("ok", False) and
\* whether the object carries a reason.
StatusNone == [type |-> "null", ok |-> FALSE, reason |-> FALSE]

\* what the status command can print on stdout: nothing, blanks, text that
\* json.loads rejects, or a JSON document (given by the value it parses to)
StatusStdouts ==
    {[text |-> "",                             json |-> FALSE, value |-> StatusNone],
     [text |-> " \n",                          json |-> FALSE, value |-> StatusNone],
     [text |-> "Traceback (most recent call",  json |-> FALSE, value |-> StatusNone],
     [text |-> "{\"ok\": true}",               json |-> TRUE,
      value |-> [type |-> "object", ok |-> TRUE, reason |-> FALSE]],
     [text |-> "{\"ok\": false, \"reason\": \"x\"}", json |-> TRUE,
      value |-> [type |-> "object", ok |-> FALSE, reason |-> TRUE]],
     [text |-> "{}",                           json |-> TRUE,
      value |-> [type |-> "object", ok |-> FALSE, reason |-> FALSE]],
     [text |-> "[]",                           json |-> TRUE,
      value |-> [type |-> "array", ok |-> FALSE, reason |-> FALSE]],
     [text |-> "null",                         json |-> TRUE, value |-> StatusNone]}

NoStatusStdout == [text |-> "", json |-> FALSE, value |-> StatusNone]

\* what one run of the status command meets: the guard script missing, the
\* run timing out, or the run ending with a return code and its stdout
StatusOutcomes ==
    {[guard |-> FALSE, run |-> None, returncode |-> 0, stdout |-> NoStatusStdout],
     [guard |-> TRUE, run |-> "TimeoutExpired", returncode |-> 0, stdout |-> NoStatusStdout]}
    \cup {[guard |-> TRUE, run |-> "exit", returncode |-> rc, stdout |-> out] :
            rc \in {0, 1}, out \in StatusStdouts}

\* no status command has run in this tick
NoStatusCmd == [guard |-> FALSE, run |-> "not run", returncode |-> 0, stdout |-> NoStatusStdout]

\* gateway_watchdog.check_status(): the parsed output, or None. The return
\* code of a finished run is an int, never None, so only the output decides.
check_status(cmd) ==
    IF ~cmd.guard THEN StatusNone
    ELSE IF cmd.run # "exit" THEN StatusNone
    ELSE IF Strip(cmd.stdout.text) = "" THEN StatusNone
    ELSE IF ~cmd.stdout.json THEN StatusNone
    ELSE cmd.stdout.value

\* mutant of NeedsRecovery: recovery only when check_status returned None
NeedsRecovery_OnlyNone(res) == res = StatusNone

\* main: `result is None` or `not result.get("ok", False)`
NeedsRecovery(res) == res = StatusNone \/ ~res.ok

\* main: result.get raises AttributeError on a value that is no object
GetRaises(res) == res # StatusNone /\ res.type # "object"

\* the names of the recovery steps run so far in this tick
StepNames(steps) == [i \in DOMAIN steps |-> steps[i].step]

\* a step of run_recovery that did not do its work
FailedStep(s) == s.outcome \in {"TimeoutExpired", "FileNotFoundError"}

\* no run_recovery() call so far: since counts the sleep slices since the
\* last call started (-1 before the first), gap is what since was when the
\* last call started, failed tells whether the last finished recovery had
\* a failed step
NoPace == [since |-> -1, gap |-> -1, failed |-> FALSE]

\* the flag is not set: where main was when the flag was set, and the sleep
\* slices completed, status checks started and run_recovery() calls started
\* since the flag was set
NothingAfter == [at |-> "none", slices |-> 0, checks |-> 0, recoveries |-> 0]

\* run_recovery has started no gateway process so far
NotLaunched == "none"

WatchdogIdle ==
    /\ pc = "idle" /\ _shutdown = FALSE /\ result = StatusNone /\ slices = 0
    /\ status_cmd = NoStatusCmd /\ recovery = <<>>
    /\ pace = NoPace /\ after = NothingAfter
    /\ launched = NotLaunched

(* Inputs of the resolver: configurations of up to MaxModels descriptors   *)
(* and one routing rule with up to MaxFallback fallback ids                *)

MaxModels == 2
MaxFallback == 2

ModelIds == {"flash", "haiku", "kimi"}

SeqsUpTo(S, n) == UNION {[1..k -> S] : k \in 0..n}

\* the descriptor list of a configuration: the alias tells apart two
\* descriptors that carry the same id
Descriptors(ids) == [i \in DOMAIN ids |-> [id |-> ids[i], alias |-> i]]

RuleSet ==
    [primary : ModelIds \cup {None}, fallback : SeqsUpTo(ModelIds, MaxFallback)]

RoutingRules ==
    {<<>>} \cup {[k \in {tier} |-> rule] : tier \in {"FAST", "CODE"}, rule \in RuleSet}

Configs ==
    [models : {Descriptors(ids) : ids \in SeqsUpTo(ModelIds, MaxModels)},
     routing_rules : RoutingRules]

ResolveTasks == {"", "Fix", "check"}

InitRecommend ==
    /\ task \in ResolveTasks
    /\ config \in Configs
    /\ rec = NoRecommendation
    /\ ClassifierIdle
    /\ DetectorIdle
    /\ DispatcherIdle
    /\ WatchdogIdle

\* one call recommend_model(task)
RecommendModel ==
    /\ rec.tier = None
    /\ rec' = recommend_model(config, task)
    /\ UNCHANGED <<task, config, classifyVars, detectVars, recent_tasks, spawnVars,
                   watchdogVars>>

NextRecommend == RecommendModel

SpecRecommend == InitRecommend /\ [][NextRecommend]_vars

-----------------------------------------------------------------------------
(* Inputs of the classifier: tasks of up to MaxWords phrases               *)

MaxWords == 3

Vocabulary ==
    {"check", "the weather", "api", "website", "screenshot", "next",
     "new site", "build", "Fix", "system", "quick look"}

\* ' '.join(words)
RECURSIVE Join(_)
Join(ws) ==
    IF Len(ws) = 0 THEN ""
    ELSE IF Len(ws) = 1 THEN ws[1]
    ELSE ws[1] \o " " \o Join(Tail(ws))

Tasks == {Join(ws) : ws \in UNION {[1..n -> Vocabulary] : n \in 0..MaxWords}}

InitClassify ==
    /\ task \in Tasks
    /\ ClassifierIdle
    /\ ResolverIdle
    /\ DetectorIdle
    /\ DispatcherIdle
    /\ WatchdogIdle

\* one call classify_task(task, return_details=True)
ClassifyTask ==
    /\ cls.tier = None
    /\ probes' = Probes(task)
    /\ cls' = Decide(probes')
    /\ UNCHANGED <<task, config, resolveVars, detectVars, recent_tasks, spawnVars,
                   watchdogVars>>

NextClassify == ClassifyTask

SpecClassify == InitClassify /\ [][NextClassify]_vars

-----------------------------------------------------------------------------
(* Inputs of the loop detector: a log of up to MaxLogLines chosen lines     *)
(* followed by a run of lines without any error keyword                    *)

MaxLogLines == 3

RECURSIVE Repeat(_, _)
Repeat(s, n) ==
    IF n = 0 THEN ""
    ELSE IF n = 1 THEN s
    ELSE Repeat(s, n \div 2) \o Repeat(s, n - n \div 2)

QuietLine == "ok\n"
\* two different lines longer than 100 characters with the same first 100
LongLineA == "timeout " \o Repeat("x", PatternLen - 8) \o " A\n"
LongLineB == "timeout " \o Repeat("x", PatternLen - 8) \o " B\n"

LogLines ==
    {"ERROR: boom\n", "  error: boom  \n", "socket error: connection refused\n",
     LongLineA, LongLineB, QuietLine}

\* the number of quiet lines written after the chosen lines
QuietRuns == {0, TailWindow - 3, TailWindow - 2}

Logs ==
    {[exists |-> TRUE, readable |-> TRUE,
      lines |-> front \o [i \in 1..q |-> QuietLine]] :
        front \in SeqsUpTo(LogLines, MaxLogLines), q \in QuietRuns}
    \cup {MissingLog, [exists |-> TRUE, readable |-> FALSE, lines |-> <<>>]}

InitDetect ==
    /\ task = "check"
    /\ gateway_log \in Logs
    /\ detect = NotDetected
    /\ recent_tasks = <<>>
    /\ ClassifierIdle
    /\ ResolverIdle
    /\ DispatcherIdle
    /\ WatchdogIdle

\* one call _detect_troubleshooting_loop(task)
DetectLoop ==
    /\ detect = NotDetected
    /\ detect' = _detect_troubleshooting_loop(task, gateway_log, recent_tasks)
    /\ UNCHANGED <<task, gateway_log, recent_tasks, config, classifyVars, resolveVars,
                   spawnVars, watchdogVars>>

NextDetect == DetectLoop

SpecDetect == InitDetect /\ [][NextDetect]_vars

-----------------------------------------------------------------------------
(* The dispatcher: one router instance, spawn_agent called again and again *)
(* while the gateway writes its log                                        *)

MaxDispatch == 11

RouterTasks == {"check", " Fix it"}

\* a log without error lines, and a log with one error line three times
QuietLog == [exists |-> TRUE, readable |-> TRUE, lines |-> <<QuietLine>>]
ErrorLog ==
    [exists |-> TRUE, readable |-> TRUE,
     lines |-> <<"ERROR: boom\n", "ERROR: boom\n", QuietLine, "ERROR: boom\n">>]
RouterLogs == {QuietLog, ErrorLog}

\* FAST and CODE both routed; and CODE routed to an id without descriptor
ConfigFull ==
    [models |-> Descriptors(<<"flash", "haiku">>),
     routing_rules |-> [k \in {"FAST", "CODE"} |->
        IF k = "FAST" THEN [primary |-> "flash", fallback |-> <<"haiku">>]
                      ELSE [primary |-> "haiku", fallback |-> <<>>]]]
ConfigNoCode ==
    [models |-> Descriptors(<<"flash", "haiku">>),
     routing_rules |-> [k \in {"FAST", "CODE"} |->
        IF k = "FAST" THEN [primary |-> "flash", fallback |-> <<"haiku">>]
                      ELSE [primary |-> "kimi", fallback |-> <<>>]]]
RouterConfigs == {ConfigFull, ConfigNoCode}

\* classify_task, task.lower().strip() and the log scan of the tasks and
\* logs used here, tabulated
ClassificationOf == [t \in RouterTasks |-> classify_task(t)]
NormalizedOf == [t \in RouterTasks |-> Normalize(t)]
LogResultOf == [l \in RouterLogs |-> LogCheck(l)]

Init ==
    /\ task = ""
    /\ config \in RouterConfigs
    /\ gateway_log = QuietLog
    /\ detect = NotDetected
    /\ recent_tasks = <<>>
    /\ rec = NoRecommendation
    /\ ClassifierIdle
    /\ DispatcherIdle
    /\ WatchdogIdle

\* the exceptions a call can end with
Errors == {"ValueError", "AttributeError"}

\* mutant of SpawnAgent: the task is tracked before the model is tested
SpawnAgent_TrackBeforeCheck(t) ==
    /\ Len(dispatched) < MaxDispatch
    /\ task' = t
    /\ before' = recent_tasks
    /\ detect' = DetectWith(LogResultOf[gateway_log], NormalizedOf[t], recent_tasks)
    /\ facepalm' \in (IF detect'.is_loop THEN FacepalmOutcomes ELSE {NotInvoked})
    /\ IF detect'.is_loop /\ Truthy(_invoke_facepalm(facepalm').diagnosis)
       THEN /\ ret' = DiagnosisReturn(detect'.reason, _invoke_facepalm(facepalm').diagnosis)
            /\ rec' = NoRecommendation
            /\ UNCHANGED <<recent_tasks, dispatched>>
       ELSE /\ rec' = Recommend(config, ClassificationOf[t])
            /\ ret' = RoutingReturn(t, rec')
            /\ recent_tasks' = Track(recent_tasks, NormalizedOf[t])
            /\ dispatched' = Append(dispatched, t)
    /\ raised' = IF ret'.kind \in Errors THEN raised \cup {ret'.kind} ELSE raised
    /\ UNCHANGED <<config, gateway_log, classifyVars, watchdogVars>>

\* one call spawn_agent(t)
SpawnAgent(t) ==
    /\ Len(dispatched) < MaxDispatch
    /\ task' = t
    /\ before' = recent_tasks
    /\ detect' = DetectWith(LogResultOf[gateway_log], NormalizedOf[t], recent_tasks)
    /\ facepalm' \in (IF detect'.is_loop THEN FacepalmOutcomes ELSE {NotInvoked})
    /\ IF detect'.is_loop /\ Truthy(_invoke_facepalm(facepalm').diagnosis)
       THEN /\ ret' = DiagnosisReturn(detect'.reason, _invoke_facepalm(facepalm').diagnosis)
            /\ rec' = NoRecommendation
            /\ UNCHANGED <<recent_tasks, dispatched>>
       ELSE /\ rec' = Recommend(config, ClassificationOf[t])
            /\ ret' = RoutingReturn(t, rec')
            /\ IF rec'.model = NoModel
               THEN UNCHANGED <<recent_tasks, dispatched>>
               ELSE /\ recent_tasks' = Track(recent_tasks, NormalizedOf[t])
                    /\ dispatched' = Append(dispatched, t)
    /\ raised' = IF ret'.kind \in Errors THEN raised \cup {ret'.kind} ELSE raised
    /\ UNCHANGED <<config, gateway_log, classifyVars, watchdogVars>>

\* the gateway (another process) rewrites gateway.log
LogChange ==
    /\ gateway_log' \in RouterLogs \ {gateway_log}
    /\ UNCHANGED <<task, config, rec, detect, recent_tasks, classifyVars, spawnVars,
                   watchdogVars>>

Next ==
    \/ \E t \in RouterTasks : SpawnAgent(t)
    \/ LogChange

Spec == Init /\ [][Next]_vars

-----------------------------------------------------------------------------
(* Inputs of the history check: a task, a recent_tasks list of up to       *)
(* MaxHistory normalized entries, and a log with or without a loop         *)

MaxHistory == 3

HistoryTasks == {"check", " Fix it", "fix it  now", "Debug the build and the api", "issue", ""}

\* what spawn_agent can have appended: trimmed, lower-cased task texts
HistoryEntries == {"check", "fix it", "debug the build and the api", ""}

HistoryLogs ==
    {MissingLog, [exists |-> TRUE, readable |-> FALSE, lines |-> <<>>], QuietLog, ErrorLog}

InitHistory ==
    /\ task \in HistoryTasks
    /\ gateway_log \in HistoryLogs
    /\ detect = NotDetected
    /\ recent_tasks \in SeqsUpTo(HistoryEntries, MaxHistory)
    /\ ClassifierIdle
    /\ ResolverIdle
    /\ DispatcherIdle
    /\ WatchdogIdle

NextHistory == DetectLoop

SpecHistory == InitHistory /\ [][NextHistory]_vars

-----------------------------------------------------------------------------
(* The watchdog process: main() from its start to its exit                 *)

RouterIdle ==
    /\ task = "" /\ ClassifierIdle /\ ResolverIdle /\ DetectorIdle /\ DispatcherIdle

\* the counters of pace and after stop counting at MaxCount
MaxCount == 20

Count(n) == IF n < MaxCount THEN n + 1 ELSE n

InitWatchdog ==
    /\ pc = "while"
    /\ _shutdown = FALSE
    /\ result = StatusNone
    /\ slices = 0
    /\ status_cmd = NoStatusCmd
    /\ recovery = <<>>
    /\ pace = NoPace
    /\ after = NothingAfter
    /\ launched = NotLaunched
    /\ RouterIdle

\* mutant of WhileTest: the loop condition does not read the flag
WhileTest_IgnoresFlag ==
    /\ pc = "while"
    /\ pc' = "check_status"
    /\ status_cmd' = NoStatusCmd
    /\ recovery' = <<>>
    /\ UNCHANGED <<_shutdown, result, slices, pace, after, launched, routerVars>>

\* while not _shutdown:
WhileTest ==
    /\ pc = "while"
    /\ IF _shutdown
       THEN /\ pc' = "stopped"
            /\ UNCHANGED <<status_cmd, recovery>>
       ELSE /\ pc' = "check_status"
            /\ status_cmd' = NoStatusCmd
            /\ recovery' = <<>>
    /\ UNCHANGED <<_shutdown, result, slices, pace, after, launched, routerVars>>

\* the call check_status() begins; the handler of a signal that arrived
\* after the loop test has run by now
CallCheckStatus ==
    /\ pc = "check_status"
    /\ pc' = "status_running"
    /\ after' = IF _shutdown THEN [after EXCEPT !.checks = Count(@)] ELSE after
    /\ UNCHANGED <<_shutdown, result, slices, status_cmd, recovery, pace, launched, routerVars>>

\* result = check_status() and the branch on it
CheckStatus ==
    /\ pc = "status_running"
    /\ status_cmd' \in StatusOutcomes
    /\ result' = check_status(status_cmd')
    /\ pc' = IF result' = StatusNone THEN "recover_status"
             ELSE IF GetRaises(result') THEN "crashed"
             ELSE IF NeedsRecovery(result') THEN "recover_status"
             ELSE "for"
    /\ slices' = 0
    /\ pace' = IF pc' = "recover_status"
               THEN [pace EXCEPT !.gap = pace.since, !.since = 0]
               ELSE pace
    /\ after' = IF _shutdown /\ pc' = "recover_status"
                THEN [after EXCEPT !.recoveries = Count(@)]
                ELSE after
    /\ UNCHANGED <<_shutdown, recovery, launched, routerVars>>

\* run_recovery step 1: status --json, a timeout ignored
RecoverStatus ==
    /\ pc = "recover_status"
    /\ \E o \in {"returned", "TimeoutExpired"} :
            recovery' = Append(recovery, [step |-> "status", outcome |-> o])
    /\ pc' = "recover_ensure"
    /\ UNCHANGED <<_shutdown, result, slices, status_cmd, pace, after, launched, routerVars>>

\* run_recovery step 2: ensure --apply --json, a timeout logged
RecoverEnsure ==
    /\ pc = "recover_ensure"
    /\ \E o \in {"returned", "TimeoutExpired"} :
            recovery' = Append(recovery, [step |-> "ensure", outcome |-> o])
    /\ pc' = "recover_launch"
    /\ UNCHANGED <<_shutdown, result, slices, status_cmd, pace, after, launched, routerVars>>

\* mutant of RecoverLaunch: the gateway is run like the other commands,
\* run_recovery returning when it has exited
RecoverLaunch_Waits ==
    /\ pc = "recover_launch"
    /\ \E o \in {"started", "FileNotFoundError"} :
            /\ recovery' = Append(recovery, [step |-> "launch", outcome |-> o])
            /\ launched' = IF o = "started" THEN "exited" ELSE launched
    /\ pc' = "for"
    /\ pace' = [pace EXCEPT !.failed = \E i \in DOMAIN recovery' : FailedStep(recovery'[i])]
    /\ UNCHANGED <<_shutdown, result, slices, status_cmd, after, routerVars>>

\* run_recovery step 3: Popen(["openclaw", "gateway"]) in a new session;
\* Popen returns once the process is started, and nothing waits for it
RecoverLaunch ==
    /\ pc = "recover_launch"
    /\ \E o \in {"started", "FileNotFoundError"} :
            /\ recovery' = Append(recovery, [step |-> "launch", outcome |-> o])
            /\ launched' = IF o = "started" THEN "running" ELSE launched
    /\ pc' = "for"
    /\ pace' = [pace EXCEPT !.failed = \E i \in DOMAIN recovery' : FailedStep(recovery'[i])]
    /\ UNCHANGED <<_shutdown, result, slices, status_cmd, after, routerVars>>

\* mutant of ForTest: the loop body does not test the flag
ForTest_NoBreak ==
    /\ pc = "for"
    /\ pc' = IF slices = INTERVAL_SEC THEN "while" ELSE "sleep"
    /\ UNCHANGED <<_shutdown, result, slices, status_cmd, recovery, pace, after, launched, routerVars>>

\* mutant of ForTest: after a recovery the loop goes round at once
ForTest_RetryAtOnce ==
    /\ pc = "for"
    /\ pc' = IF slices = INTERVAL_SEC \/ _shutdown \/ recovery # <<>> THEN "while" ELSE "sleep"
    /\ UNCHANGED <<_shutdown, result, slices, status_cmd, recovery, pace, after, launched, routerVars>>

\* for _ in range(INTERVAL_SEC): if _shutdown: break
ForTest ==
    /\ pc = "for"
    /\ pc' = IF slices = INTERVAL_SEC \/ _shutdown THEN "while" ELSE "sleep"
    /\ UNCHANGED <<_shutdown, result, slices, status_cmd, recovery, pace, after, launched, routerVars>>

\* time.sleep(1)
Sleep ==
    /\ pc = "sleep"
    /\ slices' = slices + 1
    /\ pc' = "for"
    /\ pace' = IF pace.since = -1 THEN pace ELSE [pace EXCEPT !.since = Count(@)]
    /\ after' = IF _shutdown THEN [after EXCEPT !.slices = Count(@)] ELSE after
    /\ UNCHANGED <<_shutdown, result, status_cmd, recovery, launched, routerVars>>

\* SIGTERM is delivered: _sigterm sets the flag
Sigterm ==
    /\ pc \notin {"stopped", "crashed"}
    /\ _shutdown = FALSE
    /\ _shutdown' = TRUE
    /\ after' = [after EXCEPT !.at = pc]
    /\ UNCHANGED <<pc, result, slices, status_cmd, recovery, pace, launched, routerVars>>

\* the launched gateway (a process of its own) exits
GatewayExit ==
    /\ launched = "running"
    /\ launched' = "exited"
    /\ UNCHANGED <<pc, _shutdown, result, slices, status_cmd, recovery, pace, after,
                   routerVars>>

\* the steps of the watchdog process itself
WatchdogStep ==
    \/ WhileTest
    \/ CallCheckStatus
    \/ CheckStatus
    \/ RecoverStatus
    \/ RecoverEnsure
    \/ RecoverLaunch
    \/ ForTest
    \/ Sleep

NextWatchdog ==
    \/ WatchdogStep
    \/ Sigterm
    \/ GatewayExit

SpecWatchdog == InitWatchdog /\ [][NextWatchdog]_vars

\* the process is scheduled and every external command returns or times
\* out: a step of the watchdog that can be taken is taken
SpecWatchdogFair == SpecWatchdog /\ WF_vars(WatchdogStep)

-----------------------------------------------------------------------------
(* Properties of classify_task, checked under SpecClassify                 *)

Classified == cls.tier # None
NoScoringKeyword == \A k \in ScoreTiers : probes.scores[k] = 0

\* C1 (as claimed): every task that contains a website/landing-page project
\* keyword is classified CREATIVE, whatever the other categories score.
\* Tasks with a vision keyword return before the website override (C4) and
\* are left out of the statement.
C1_WebsiteIsCreative ==
    (Classified /\ probes.website > 0 /\ probes.scores["VISION"] = 0)
        => cls.tier = "CREATIVE"

\* C3 (as claimed): a task with zero keyword matches in every scoring
\* category is classified FAST with confidence 0.
C3_NoKeywordIsFast ==
    (Classified /\ NoScoringKeyword)
        => (cls.tier = "FAST" /\ cls.confidence.num = 0)

\* C3 (amended): a task with zero keyword matches in every scoring category
\* that is not agentic (fewer than 2 agentic keywords and no multi-step
\* pattern) and contains no website-project keyword is classified FAST with
\* confidence 0.
C3_NoKeywordPlainIsFast ==
    (Classified /\ NoScoringKeyword /\ ~IsAgentic(probes) /\ probes.website = 0)
        => (cls.tier = "FAST" /\ cls.confidence.num = 0)

\* C3 witness: a non-empty task without any keyword has been classified
C3_Witness ==
    /\ Classified /\ NoScoringKeyword /\ ~IsAgentic(probes) /\ probes.website = 0
    /\ task = "the weather"

\* C4: a task in which a vision keyword matches is classified VISION with
\* is_agentic false and tier_scores holding only VISION, whatever website,
\* agentic or other keywords it contains.
C4_VisionOverride ==
    (Classified /\ probes.scores["VISION"] > 0)
        => /\ cls.tier = "VISION"
           /\ cls.is_agentic = FALSE
           /\ DOMAIN cls.tier_scores = {"VISION"}
           /\ cls.tier_scores["VISION"] = probes.scores["VISION"]

\* C4 witness: a classified task with a vision keyword that also carries a
\* website keyword and a multi-step pattern
C4_Witness ==
    /\ Classified /\ probes.scores["VISION"] > 0
    /\ probes.website > 0 /\ IsAgentic(probes)

\* C11: when the agentic keyword count is at least 2 or a multi-step pattern
\* matches, the returned tier is never FAST, also for tasks with a positive
\* FAST keyword score before the adjustment.
C11_AgenticNeverFast ==
    (Classified /\ IsAgentic(probes)) => cls.tier # "FAST"

\* C11 witness: an agentic task without vision keyword whose FAST score was
\* 2 before the adjustment has been classified
C11_Witness ==
    /\ Classified /\ IsAgentic(probes)
    /\ probes.scores["FAST"] = 2 /\ probes.scores["VISION"] = 0

PublicTiers == {"VISION", "FAST", "REASONING", "CREATIVE", "RESEARCH", "CODE", "QUALITY"}

\* C12: the returned tier is always one of VISION, FAST, REASONING,
\* CREATIVE, RESEARCH, CODE, QUALITY; COMPLEX is never returned.
C12_TierIsPublic ==
    Classified => (cls.tier \in PublicTiers /\ cls.tier # "COMPLEX")

\* C12 witness: a classified task for which max-score selection chose
\* COMPLEX and neither the website override nor the COMPLEX-and-FAST rule
\* applied
C12_Witness ==
    /\ Classified /\ probes.scores["VISION"] = 0 /\ probes.website = 0
    /\ SelectTier(AdjustedScores(probes)) = "COMPLEX"
    /\ AdjustedScores(probes)["FAST"] = 0
    /\ AdjustedScores(probes)["CODE"] = 0

\* C17 (as claimed): the task "check the weather" is classified FAST with
\* confidence 0.
C17_CheckTheWeatherZero ==
    (Classified /\ task = "check the weather")
        => (cls.tier = "FAST" /\ cls.confidence.num = 0)

\* C17 (amended): the task "check the weather" is classified FAST with
\* confidence 0.2 (its one FAST keyword over 5).
C17_CheckTheWeatherFifth ==
    (Classified /\ task = "check the weather")
        => (cls.tier = "FAST" /\ cls.confidence = [num |-> 1, den |-> 5])

\* C17 witness: "check the weather" has been classified; its only keyword
\* hit is one FAST keyword
C17_Witness ==
    /\ Classified /\ task = "check the weather"
    /\ probes.scores = [k \in ScoreTiers |-> IF k = "FAST" THEN 1 ELSE 0]
    /\ ~IsAgentic(probes) /\ probes.website = 0

\* the COMPLEX-and-FAST rule applies to the adjusted scores
RuleFires(scores) ==
    scores["COMPLEX"] > 0 /\ scores["FAST"] > 0 /\ scores["COMPLEX"] >= scores["FAST"]

TopTiers == {k \in ScoreTiers : AdjustedScores(probes)[k] = MaxScore(AdjustedScores(probes))}

\* the place of a category in the order FAST, REASONING, CREATIVE, RESEARCH,
\* CODE, COMPLEX, VISION
Rank(k) ==
    CASE k = "FAST" -> 1 [] k = "REASONING" -> 2 [] k = "CREATIVE" -> 3
      [] k = "RESEARCH" -> 4 [] k = "CODE" -> 5 [] k = "COMPLEX" -> 6 [] k = "VISION" -> 7

\* no later rule of classify_task changes what max-score selection chose
SelectionStands ==
    /\ probes.scores["VISION"] = 0 /\ probes.website = 0
    /\ ~RuleFires(AdjustedScores(probes))
    /\ \A k \in TopTiers : Rank(k) < Rank("COMPLEX")

\* C21: when several categories share the maximum non-zero score, max-score
\* selection takes the one that comes first in the order FAST, REASONING,
\* CREATIVE, RESEARCH, CODE, COMPLEX, VISION; where no later rule applies
\* that category is the tier returned.
C21_FirstOfTiedCategories ==
    (Classified /\ probes.scores["VISION"] = 0 /\ MaxScore(AdjustedScores(probes)) > 0)
        => /\ SelectTier(AdjustedScores(probes)) \in TopTiers
           /\ \A k \in TopTiers : Rank(SelectTier(AdjustedScores(probes))) <= Rank(k)
           /\ SelectionStands =>
                 /\ cls.tier \in TopTiers
                 /\ \A k \in TopTiers : Rank(cls.tier) <= Rank(k)

\* C21 witness: FAST and CODE share the maximum score 1 and no later rule
\* applies, and FAST has been returned
C21_Witness ==
    /\ Classified /\ SelectionStands
    /\ TopTiers = {"FAST", "CODE"} /\ MaxScore(AdjustedScores(probes)) = 1
    /\ cls.tier = "FAST"

-----------------------------------------------------------------------------
(* Properties of recommend_model, checked under SpecRecommend              *)

\* the ids of the tier's fallback list that have a configured descriptor
Resolvable(ids) == {i \in DOMAIN ids : \E j \in DOMAIN config.models : config.models[j].id = ids[i]}

\* C10 (as claimed): the fallback returned is the descriptor of the first id
\* of the tier's fallback list that has a configured descriptor, and it is
\* null when no id of the list has one.
C10_FirstResolvableFallback ==
    rec.tier # None =>
        LET ids == TierRules(config, rec.tier).fallback
            ok == Resolvable(ids)
        IN  IF ok = {}
            THEN rec.fallback = NoModel
            ELSE rec.fallback.id = ids[CHOOSE i \in ok : \A j \in ok : i <= j]

-----------------------------------------------------------------------------
(* Properties of _detect_troubleshooting_loop, checked under SpecDetect    *)

\* the lines of the log that fall in the last 200
WindowLines == LastN(gateway_log.lines, TailWindow)

\* how many error lines of the window carry the key of line i (the first
\* 100 characters of the trimmed line)
Occurrences(i) ==
    Cardinality({j \in DOMAIN WindowLines :
                    /\ ErrorHits(WindowLines[j]) # {}
                    /\ Pattern(WindowLines[j]) = Pattern(WindowLines[i])})

\* C2 (as claimed): the log check reports a loop when the last 200 lines
\* hold the same error line (keyed by its first 100 trimmed characters) 3 or
\* more times, and reports no loop when no error line occurs more than 2
\* times.
C2_LoopIffThreeOccurrences ==
    (detect # NotDetected /\ gateway_log.exists /\ gateway_log.readable)
        => (detect.is_loop <=>
                \E i \in DOMAIN WindowLines :
                    ErrorHits(WindowLines[i]) # {} /\ Occurrences(i) >= LoopThreshold)

-----------------------------------------------------------------------------
(* Properties of spawn_agent, checked under Spec                           *)

\* the normalized texts of the tasks dispatched so far, oldest first
DispatchedNormalized == [i \in DOMAIN dispatched |-> NormalizedOf[dispatched[i]]]

\* C8: recent_tasks never holds more than 10 entries, and it holds the
\* trimmed, lower-cased texts of the most recently dispatched tasks in
\* dispatch order, the oldest dropped first once more than 10 have been
\* dispatched.
C8_RecentIsLastTenDispatched ==
    /\ Len(recent_tasks) <= MaxRecent
    /\ recent_tasks = LastN(DispatchedNormalized, MaxRecent)
    /\ \A i \in DOMAIN recent_tasks : recent_tasks[i] \in {"check", "fix it"}

\* C8 witness: more than 10 tasks have been dispatched, the oldest of them
\* differs from the one after it and has been dropped
C8_Witness ==
    /\ Len(dispatched) > MaxRecent
    /\ Len(recent_tasks) = MaxRecent
    /\ dispatched[1] = " Fix it" /\ dispatched[2] = "check"
    /\ recent_tasks[1] = "check"

\* C9 (as claimed): whenever the detector reports a loop and the diagnosis
\* command exits zero, spawn_agent returns the diagnosis result (tier CODE,
\* the diagnosis model, facepalm_invoked true, the loop reason) and
\* recent_tasks is as it was before the call.
C9_LoopReturnsDiagnosis ==
    (detect # NotDetected /\ detect.is_loop /\ facepalm.run = "exit" /\ facepalm.returncode = 0)
        => /\ ret.kind = "diagnosis"
           /\ ret.tier = "CODE"
           /\ ret.model = DiagnosisModel
           /\ ret.facepalm_invoked
           /\ ret.task.reason = detect.reason
           /\ recent_tasks = before

\* the last call went through normal routing (recommend_model was called)
ReachedRouting == ret # NoReturn /\ rec # NoRecommendation

\* C16: a call that reaches normal routing for a tier without a configured
\* primary model ends with ValueError and leaves recent_tasks as it was; a
\* later call for a tier with a model is routed and tracked as usual.
C16_NoModelRaisesAndLeavesHistory ==
    /\ (ReachedRouting /\ rec.model = NoModel)
            => (ret.kind = "ValueError" /\ recent_tasks = before)
    /\ ret.kind = "ValueError" => (ReachedRouting /\ rec.model = NoModel)
    /\ ("ValueError" \in raised /\ ReachedRouting /\ rec.model # NoModel)
            => /\ ret.kind = "routed" /\ ret.model = rec.model.id
               /\ recent_tasks = LastN(Append(before, NormalizedOf[task]), MaxRecent)

\* C16 witness: after a call that raised ValueError with a non-empty
\* recent_tasks, a later call has been routed and tracked
C16_Witness ==
    /\ "ValueError" \in raised
    /\ config = ConfigNoCode
    /\ ret.kind = "routed" /\ task = "check"
    /\ Len(before) >= 1 /\ Len(recent_tasks) = Len(before) + 1

\* the last call found a loop and its diagnosis call failed: script
\* missing, timeout, exception or non-zero exit
DiagnosisFailed ==
    /\ ret # NoReturn /\ detect.is_loop
    /\ \/ ~facepalm.script
       \/ facepalm.run \in {"TimeoutExpired", "Exception"}
       \/ facepalm.run = "exit" /\ facepalm.returncode # 0

\* the last call returned the normal routing result of its task and
\* tracked the task
RoutedAndTracked ==
    /\ ret.kind = "routed"
    /\ ret.tier = ClassificationOf[task].tier
    /\ ret.model = config.routing_rules[ret.tier].primary
    /\ ret.task.text = task
    /\ ~ret.facepalm_invoked
    /\ recent_tasks = LastN(Append(before, NormalizedOf[task]), MaxRecent)
    /\ recent_tasks[Len(recent_tasks)] \in {"check", "fix it"}

\* C22 (as claimed): when a loop is reported and the diagnosis call fails,
\* spawn_agent returns the classified tier and configured model for the
\* original task and appends the normalized task to recent_tasks.
C22_FailedDiagnosisRoutes ==
    DiagnosisFailed => RoutedAndTracked

\* C22 (amended): when a loop is reported and the diagnosis call fails,
\* spawn_agent continues with normal routing: if the classified tier has a
\* configured primary model it returns that tier and model for the original
\* task and appends the normalized task to recent_tasks; if it has none the
\* call raises ValueError and recent_tasks is unchanged.
C22_FailedDiagnosisFallsThrough ==
    DiagnosisFailed =>
        /\ ReachedRouting
        /\ rec.tier = ClassificationOf[task].tier
        /\ IF \E i \in DOMAIN config.models :
                    config.models[i].id = config.routing_rules[rec.tier].primary
           THEN RoutedAndTracked
           ELSE ret.kind = "ValueError" /\ recent_tasks = before

\* C22 witness: a loop was found in the log, the diagnosis run exited with
\* a non-zero code, and the task has been routed and tracked
C22_Witness ==
    /\ DiagnosisFailed /\ RoutedAndTracked
    /\ detect.reason.kind # "Similar troubleshooting task attempted"
    /\ facepalm.run = "exit" /\ facepalm.returncode = 1
    /\ task = " Fix it" /\ Len(before) = 1

\* the last call took the diagnosis path for a loop the history check found
DiagnosedFromHistory ==
    /\ ret.kind = "diagnosis"
    /\ detect.is_loop
    /\ detect.reason.kind = "Similar troubleshooting task attempted"

\* C25 (as claimed): after a call that took the diagnosis path because of
\* the history check, a repeated call with the same task whose diagnosis
\* command succeeds (exits zero) takes the diagnosis path too and leaves
\* recent_tasks as it was.
C25_RetryStaysOnDiagnosis ==
    [][(/\ DiagnosedFromHistory
        /\ task' = task
        /\ facepalm'.run = "exit" /\ facepalm'.returncode = 0)
            => (ret'.kind = "diagnosis" /\ recent_tasks' = recent_tasks)]_vars

-----------------------------------------------------------------------------
(* Properties of the watchdog loop, checked under SpecWatchdog             *)

\* the status check and the recovery of the current tick are over
TickDone == pc \in {"for", "sleep", "while", "stopped"} /\ status_cmd # NoStatusCmd

FullRecovery == <<"status", "ensure", "launch">>

\* the status command printed the object {"ok": true}
PrintedOkTrue ==
    /\ status_cmd.run = "exit" /\ status_cmd.stdout.json
    /\ status_cmd.stdout.value.type = "object" /\ status_cmd.stdout.value.ok

\* the status command printed an object with ok false, or text that is
\* not JSON
PrintedNotOkOrUnparseable ==
    /\ status_cmd.run = "exit" /\ Strip(status_cmd.stdout.text) # ""
    /\ \/ ~status_cmd.stdout.json
       \/ status_cmd.stdout.value.type = "object" /\ ~status_cmd.stdout.value.ok

\* C5: in a tick whose status command returns {"ok": true} no recovery step
\* runs; in a tick whose status command returns ok false or unparseable
\* output the three recovery steps run, in order, exactly once.
C5_RecoveryFollowsStatus ==
    /\ Len(recovery) <= Len(FullRecovery)
    /\ StepNames(recovery) = SubSeq(FullRecovery, 1, Len(recovery))
    /\ PrintedOkTrue => recovery = <<>>
    /\ (TickDone /\ PrintedNotOkOrUnparseable) => StepNames(recovery) = FullRecovery

\* C5 witness: a tick whose status command printed ok false has ended, its
\* recovery done with the ensure step timed out
C5_Witness ==
    /\ TickDone /\ PrintedNotOkOrUnparseable
    /\ status_cmd.stdout.json
    /\ StepNames(recovery) = FullRecovery
    /\ recovery[2].outcome = "TimeoutExpired"
    /\ pc = "sleep"

\* the status command gave one of the outcomes the claim calls unknown: a
\* timeout, a non-zero return code, empty output or output that does not
\* parse
UnknownStatus ==
    \/ status_cmd.run = "TimeoutExpired"
    \/ /\ status_cmd.run = "exit"
       /\ \/ status_cmd.returncode # 0
          \/ Strip(status_cmd.stdout.text) = ""
          \/ ~status_cmd.stdout.json

\* a step of the watchdog that ends the launch step of run_recovery
LaunchReturns == pc = "recover_launch" /\ pc' # "recover_launch"

\* C23: every recovery sequence runs (a) the status re-check, (b) ensure
\* --apply, (c) the detached gateway launch, in that order; step (c) is
\* attempted in every recovery, also when (a) or (b) timed out; and the
\* launch step returns to the loop with the launched process still running.
C23_RecoveryOrderAndDetachedLaunch ==
    /\ [](/\ StepNames(recovery) = SubSeq(FullRecovery, 1, Len(recovery))
          /\ pc = "recover_ensure" => StepNames(recovery) = <<"status">>
          /\ pc = "recover_launch" => StepNames(recovery) = <<"status", "ensure">>
          /\ (recovery # <<>> /\ pc \notin {"recover_ensure", "recover_launch"})
                => StepNames(recovery) = FullRecovery)
    /\ [][LaunchReturns =>
            /\ pc' = "for"
            /\ StepNames(recovery') = FullRecovery
            /\ recovery'[3].outcome = "started" => launched' = "running"
            /\ recovery'[3].outcome # "started" => launched' = launched]_vars

\* C23 witness: the loop is in a sleep slice after a recovery whose status
\* re-check and ensure step both timed out, the launched gateway running
C23_Witness ==
    /\ pc = "sleep" /\ slices > 0
    /\ StepNames(recovery) = FullRecovery
    /\ recovery[1].outcome = "TimeoutExpired"
    /\ recovery[2].outcome = "TimeoutExpired"
    /\ recovery[3].outcome = "started"
    /\ launched = "running"

\* C6 (as claimed): a status check that fails to parse, returns a non-zero
\* return code, prints nothing or times out counts as unknown, and the
\* recovery runs in that tick.
C6_UnknownStatusRecovers ==
    (TickDone /\ UnknownStatus) => StepNames(recovery) = FullRecovery

\* C7 (as claimed): the watchdog leaves its loop only after the shutdown
\* flag is set; no outcome of the status check, JSON of any shape included,
\* ends the process.
C7_StopsOnlyOnShutdown ==
    pc \in {"stopped", "crashed"} => (pc = "stopped" /\ _shutdown)

-----------------------------------------------------------------------------
(* Properties of the history check, checked under SpecHistory              *)

Detected == detect # NotDetected

\* the call reported a loop found by the history check
HistoryLoop == Detected /\ detect.is_loop /\ detect.reason.kind = "Similar troubleshooting task attempted"

\* the log part found no loop for the log of the call
LogYieldsNoLoop == ~LogCheck(gateway_log).is_loop

\* how often the task being dispatched occurs in recent_tasks
Attempts == Cardinality({i \in DOMAIN recent_tasks : recent_tasks[i] = Normalize(task)})

\* C18 (as claimed): the history check reports a loop only when the task
\* being dispatched occurs at least twice in recent_tasks.
C18_LoopOnlyForSameTask ==
    HistoryLoop => Attempts >= 2

HasTroubleshootingKeyword ==
    \E kw \in {"fix", "debug", "error", "issue", "problem", "troubleshoot"} :
        Contains(Strip(Lower(task)), kw)

\* the number of words of a text (maximal runs of non-blank characters)
WordCount(s) ==
    Cardinality({i \in 1..Len(s) :
                    /\ ~IsSpace(CharAt(s, i))
                    /\ (i = 1 \/ IsSpace(CharAt(s, i - 1)))})

\* the number of space characters of a text
SpaceCount(s) == Cardinality({i \in 1..Len(s) : SubSeq(s, i, i) = " "})

\* two entries of recent_tasks are within 2 of the task by the measure
TwoWithin(Measure(_)) ==
    \E i, j \in DOMAIN recent_tasks :
        /\ i # j
        /\ Abs(Measure(Strip(Lower(task))) - Measure(recent_tasks[i])) <= 2
        /\ Abs(Measure(Strip(Lower(task))) - Measure(recent_tasks[j])) <= 2

\* C19 (as claimed): when the log yields no loop, a loop is reported exactly
\* when the normalized task contains a troubleshooting keyword and at least
\* 2 entries of recent_tasks have a word count within 2 of the task's word
\* count; otherwise the result is (false, null).
C19_LoopIffSimilarWordCount ==
    (Detected /\ LogYieldsNoLoop)
        => /\ detect.is_loop <=> (HasTroubleshootingKeyword /\ TwoWithin(WordCount))
           /\ ~detect.is_loop => detect = NoLoop

\* C19 (amended): when the log yields no loop, a loop is reported exactly
\* when the normalized task contains a troubleshooting keyword and at least
\* 2 entries of recent_tasks have a number of space characters within 2 of
\* the task's number of space characters; otherwise the result is
\* (false, null).
C19_LoopIffSimilarSpaceCount ==
    (Detected /\ LogYieldsNoLoop)
        => /\ detect.is_loop <=> (HasTroubleshootingKeyword /\ TwoWithin(SpaceCount))
           /\ detect.is_loop => detect.reason.kind = "Similar troubleshooting task attempted"
           /\ ~detect.is_loop => detect = NoLoop

\* C19 witness: a loop has been reported for a task with a keyword whose
\* space count is exactly 2 away from two of three entries, the log being
\* quiet
C19_Witness ==
    /\ Detected /\ gateway_log = QuietLog /\ detect.is_loop
    /\ task = "fix it  now"
    /\ recent_tasks = <<"fix it", "check", "fix it">>
    /\ detect.reason.count = 2

-----------------------------------------------------------------------------
(* Properties of the watchdog's timing and shutdown, checked under         *)
(* SpecWatchdog and SpecWatchdogFair                                       *)

\* C13: when a recovery sequence starts after an earlier one, the full
\* interval of INTERVAL_SEC one-unit sleep slices has been slept since the
\* earlier one started, also when the earlier one failed or timed out.
C13_RecoveriesAnIntervalApart ==
    pace.gap # -1 => pace.gap >= INTERVAL_SEC

\* C13 witness: a second recovery sequence has just started, exactly one
\* interval after the one before it, which had a failed step
C13_Witness ==
    /\ pc = "recover_status" /\ recovery = <<>>
    /\ pace.gap = INTERVAL_SEC /\ pace.since = 0
    /\ pace.failed

\* C14 (as claimed): once the flag is set, the watchdog executes at most one
\* further sleep slice and starts no further status check before it leaves
\* the loop.
C14_OneSliceNoCheckAfterSignal ==
    after.slices <= 1 /\ after.checks = 0

\* C14 (amended): once the flag is set, the watchdog executes at most one
\* further sleep slice and starts no further status check, except the one
\* status check of a loop pass whose test had succeeded before the signal,
\* after which no sleep slice follows.
C14_OneSliceOrPendingCheck ==
    /\ after.slices <= 1
    /\ after.checks <= 1
    /\ after.slices + after.checks <= 1

\* C14 witness: the process has stopped after a signal that arrived during
\* a sleep slice, which was the one further slice
C14_Witness ==
    /\ pc = "stopped" /\ _shutdown
    /\ after.slices = 1 /\ after.checks = 0
    /\ slices < INTERVAL_SEC

C15_SignalLeadsToStopped ==
    /\ _shutdown ~> (pc = "stopped")
    /\ [][pc = "stopped" => pc' = "stopped"]_vars

====
